---- MODULE Spec2Model ----
(***************************************************************************)
(* tools/sync-components.js: one run of the component documentation sync.  *)
(*                                                                         *)
(* The main script runs synchronously (core branch, extensions branch,     *)
(* removal of source/examples, registration of the aggregate), then the    *)
(* event loop runs the promise reactions.  A lane whose promise is already *)
(* resolved when the main script ends (local copy) has its processor       *)
(* queued as a microtask; microtasks run before any I/O completion, in the *)
(* order they were queued.                                                 *)
(***************************************************************************)
EXTENDS Integers, Sequences, FiniteSets, TLC

\* Largest number of manifest records, both groups together.
MaxRecords == 2

Groups == {"core", "extensions"}

\* path.resolve(TOOLS_PATH, ...) of the two working directories and archives.
TempDir(g) == IF g = "core" THEN "mip-master" ELSE "mip-extensions-master"

TempZip(g) == IF g = "core" THEN "mip-master.zip" ELSE "mip-extensions-master.zip"

\* A list that leaves out the core working directory.
CleanNamesShort ==
    << "mip-extensions-master.zip", "mip-extensions-master", "mip-master.zip" >>

\* The list clean() walks.
CleanNames ==
    << "mip-extensions-master.zip", "mip-extensions-master",
       "mip-master.zip", "mip-master" >>

TempPaths == {TempDir(g) : g \in Groups} \cup {TempZip(g) : g \in Groups}

\* Output paths below BASE_URL/source that a manifest record may name.
Outputs == {"components/a.md", "examples/a.md"}

\* Whether path.dirname(outputFilePath) lies in source/examples.
UnderExamples(o) == o \in {"examples/a.md"}

\* JavaScript values of a record's preview field: <<type, value>>.
Undefined == <<"undefined", 0>>

Null == <<"null", 0>>

Bool(b) == <<"boolean", IF b THEN 1 ELSE 0>>

\* The !! coercion.
ToBoolean(v) == v[1] = "boolean" /\ v[2] # 0

\* File states of an output path.
NoFile == << >>

StaleFile == << "stale" >>

\* The <<output, preview>> pairs a manifest record is drawn from: both
\* output paths and every preview value occur.
RecordKinds ==
    { <<"components/a.md", Undefined>>, <<"components/a.md", Bool(FALSE)>>,
      <<"examples/a.md", Bool(TRUE)>>, <<"examples/a.md", Null>> }

\* The manifest of components.js: records {name, readme, output, preview}.
RecordsOf(g, n) ==
    { [i \in 1..n |-> [name |-> <<"name", g, i>>, readme |-> i,
                       output |-> f[i][1], preview |-> f[i][2]]] :
        f \in [1..n -> RecordKinds] }

Manifests ==
    UNION { { [core |-> c, extensions |-> e] :
                c \in RecordsOf("core", n[1]), e \in RecordsOf("extensions", n[2]) } :
            n \in { m \in (0..MaxRecords) \X (0..MaxRecords) : m[1] + m[2] <= MaxRecords } }

VARIABLES
    argv,        \* per group: "absent", "dir" (a directory), "nodir" (given, not a directory)
    manifest,    \* components.getCore() / components.getExtensions()
    pc,          \* "core", "extensions", "sync", "wait", "cleaned", "done"
    exitCode,    \* the process exit code (0 unless process.exit(1) ran)
    lane,        \* per group: "idle", "downloading", "unzipping", "ready", "done", "failed"
    laneErr,     \* per group: the rejection reason <<kind, readme>>
    tmp,         \* the paths that exist under tools/
    tree,        \* per group: the readme files present in its working directory
    out,         \* per output path: NoFile, StaleFile or the text written
    examplesDir, \* whether source/examples exists
    log,         \* reporter lines <<level, message, argument>>
    reads,       \* <<group, readme>> of every fs.readFileSync of a source file
    ioFault,     \* per group: the readmes whose fs.writeFileSync threw
    cleanCount   \* calls of clean()

vars == << argv, manifest, pc, exitCode, lane, laneErr, tmp, tree, out,
           examplesDir, log, reads, ioFault, cleanCount >>

NoErr == <<"none", 0>>

Init ==
    /\ argv \in [Groups -> {"absent", "dir", "nodir"}]
    /\ manifest \in Manifests
    /\ pc = "core"
    /\ exitCode = 0
    /\ lane = [g \in Groups |-> "idle"]
    /\ laneErr = [g \in Groups |-> NoErr]
    /\ \E leftover \in BOOLEAN :
          /\ tmp = IF leftover THEN TempPaths ELSE {}
          /\ out = [o \in Outputs |-> IF leftover THEN StaleFile ELSE NoFile]
          /\ examplesDir = leftover
    /\ tree = [g \in Groups |-> {}]
    /\ log = << >>
    /\ reads = {}
    /\ ioFault = [g \in Groups |-> {}]
    /\ cleanCount = 0

\* reporter.info / reporter.error
Report(level, message, argument) == Append(log, <<level, message, argument>>)

\* path.resolve(process.cwd(), argv.core / argv.extensions)
LocalPath(g) == IF g = "core" THEN "cwd/core-dir" ELSE "cwd/extensions-dir"

\* if (argv.core) / if (argv.extensions)
LocalGiven(g) == argv[g] # "absent"

\* A check that accepts whatever path is given.
LocalDirOkAnyPath(g) == TRUE

\* util.isDirectory(localCoreDir) / util.isDirectory(localExtensionsDir)
LocalDirOk(g) == argv[g] = "dir"

\* A script whose core branch goes straight to the removal of source/examples.
AfterBranchSkipsExtensions(g) == "sync"

\* The statement after a group's branch of the main script.
AfterBranch(g) == IF g = "core" THEN "extensions" ELSE "sync"

\* Ending the process without a failure status.
ExitStatusLost ==
    /\ exitCode' = 0
    /\ pc' = "done"

\* process.exit(1)
Exit1 ==
    /\ exitCode' = 1
    /\ pc' = "done"

\* rimraf.sync(path.resolve(TOOLS_PATH, name)) for every name of the list.
RECURSIVE RimrafAll(_, _, _)
RimrafAll(names, i, fs) ==
    IF i > Len(names) THEN fs ELSE RimrafAll(names, i + 1, fs \ {names[i]})

clean(fs) == RimrafAll(CleanNames, 1, fs)

\* Lines 150-155 and 186-191: the local path is given and is no directory.
InvalidLocalDir(g) ==
    /\ pc = g
    /\ LocalGiven(g)
    /\ ~LocalDirOk(g)
    /\ log' = Report("error", "local directory does not exist", LocalPath(g))
    /\ Exit1
    /\ UNCHANGED << argv, manifest, lane, laneErr, tmp, tree, out, examplesDir,
                    reads, ioFault, cleanCount >>

\* Lines 156-172 and 192-207: copydir.sync runs inside the promise executor,
\* so the copy is done (or has thrown) before the next statement of the script.
LocalCopy(g) ==
    /\ pc = g
    /\ LocalGiven(g)
    /\ LocalDirOk(g)
    /\ log' = Report("info", "load local directory", LocalPath(g))
    /\ \/ \E present \in SUBSET (1..Len(manifest[g])) :
             /\ tmp' = tmp \cup {TempDir(g)}
             /\ tree' = [tree EXCEPT ![g] = present]
             /\ lane' = [lane EXCEPT ![g] = "ready"]
             /\ UNCHANGED laneErr
       \/ \E partial \in BOOLEAN :
             /\ tmp' = IF partial THEN tmp \cup {TempDir(g)} ELSE tmp
             /\ lane' = [lane EXCEPT ![g] = "failed"]
             /\ laneErr' = [laneErr EXCEPT ![g] = <<"copy", 0>>]
             /\ UNCHANGED tree
    /\ pc' = AfterBranch(g)
    /\ UNCHANGED << argv, manifest, exitCode, out, examplesDir, reads, ioFault,
                    cleanCount >>

\* A remote lane whose processor is chained without waiting for the download.
RemoteStartNoWait(g) ==
    /\ pc = g
    /\ ~LocalGiven(g)
    /\ lane' = [lane EXCEPT ![g] = "ready"]
    /\ pc' = AfterBranch(g)
    /\ UNCHANGED << argv, manifest, exitCode, laneErr, tmp, tree, out, examplesDir,
                    log, reads, ioFault, cleanCount >>

\* Lines 174-183 and 209-218: util.downGit is called; the download is in flight.
RemoteStart(g) ==
    /\ pc = g
    /\ ~LocalGiven(g)
    /\ lane' = [lane EXCEPT ![g] = "downloading"]
    /\ pc' = AfterBranch(g)
    /\ UNCHANGED << argv, manifest, exitCode, laneErr, tmp, tree, out, examplesDir,
                    log, reads, ioFault, cleanCount >>

\* A script that keeps the earlier source/examples.
RemoveExamplesSkipped ==
    /\ pc = "sync"
    /\ log' = Append(log, <<"info", "start", "">>)
    /\ pc' = "wait"
    /\ UNCHANGED << argv, manifest, exitCode, lane, laneErr, tmp, tree, out,
                    examplesDir, reads, ioFault, cleanCount >>

\* A script that calls clean() while registering it: .then(clean())
RemoveExamplesCleanCalled ==
    /\ pc = "sync"
    /\ log' = Append(log, <<"info", "start", "">>)
    /\ out' = [o \in Outputs |-> IF UnderExamples(o) THEN NoFile ELSE out[o]]
    /\ examplesDir' = FALSE
    /\ tmp' = clean(tmp)
    /\ cleanCount' = cleanCount + 1
    /\ pc' = "wait"
    /\ UNCHANGED << argv, manifest, exitCode, lane, laneErr, tree, reads, ioFault >>

\* Lines 220-225: the start line, rimraf.sync(source/examples), and the
\* registration of the aggregate's reactions; the script then ends.
RemoveExamples ==
    /\ pc = "sync"
    /\ log' = Report("info", "start", "")
    /\ out' = [o \in Outputs |-> IF UnderExamples(o) THEN NoFile ELSE out[o]]
    /\ examplesDir' = FALSE
    /\ pc' = "wait"
    /\ UNCHANGED << argv, manifest, exitCode, lane, laneErr, tmp, tree, reads,
                    ioFault, cleanCount >>

\* fs.readFileSync(markdownFile).toString(): the text of a group's readme,
\* <<title line, declared dependencies, body>>.
FileText(g, readme) ==
    << <<"title", g, readme>>, <<"deps", g, readme>>, <<"body", g, readme>> >>

\* util.parseMarkdown: splits the title line from the body and extracts the
\* declared dependencies.
ParseMarkdown(text) == [title |-> text[1], content |-> text[3], deps |-> text[2]]

\* util.toMarkdown: the title heading, the setting block, the body.
ToMarkdown(doc) == << doc.title, doc.setting, doc.content >>

\* path.dirname(markdownFile): every component has its own directory.
Dirname(readme) == readme

\* util.readPreset: the sidecar of a directory, undefined when there is none
\* (here the even-numbered directories have none).
ReadPreset(g, dir) ==
    IF dir % 2 = 1 THEN <<"preset", g, dir>> ELSE <<"undefined", "", 0>>

\* A preview that is only coerced: !!val.preview
PreviewCoerced(val) == Bool(ToBoolean(val.preview))

\* Lines 69 and 118: val.preview === undefined ? true : !!val.preview
Preview(val) ==
    IF val.preview = Undefined THEN Bool(TRUE) ELSE Bool(ToBoolean(val.preview))

\* A document whose parsed data is that of the group's first record.
DocumentSharedData(g, val) ==
    LET data == ParseMarkdown(FileText(g, manifest[g][1].readme))
        preset == ReadPreset(g, Dirname(val.readme))
    IN  [title |-> data.title,
         content |-> data.content,
         setting |-> [deps |-> data.deps, name |-> val.name, preset |-> preset,
                      preview |-> Preview(val)]]

\* Lines 57-71 and 106-120: the object handed to util.toMarkdown.
Document(g, val) ==
    LET data == ParseMarkdown(FileText(g, val.readme))
        preset == ReadPreset(g, Dirname(val.readme))
    IN  [title |-> data.title,
         content |-> data.content,
         setting |-> [deps |-> data.deps, name |-> val.name, preset |-> preset,
                      preview |-> Preview(val)]]

\* Lines 49-76 and 98-125: the executor of one record's promise.  st holds the
\* output files, source/examples, the log, the reads and the settled results
\* so far; bad are the readmes whose write throws.
RunRecord(g, val, bad, st) ==
    IF val.readme \notin tree[g]
    THEN [st EXCEPT !.results = Append(@, <<"nofile", val.readme>>)]
    ELSE LET read == [st EXCEPT !.reads = @ \cup {<<g, val.readme>>},
                                !.examplesDir = @ \/ UnderExamples(val.output)]
         IN  IF val.readme \in bad
             THEN [read EXCEPT !.results = Append(@, <<"io", val.readme>>)]
             ELSE [read EXCEPT
                     !.out = [@ EXCEPT ![val.output] = ToMarkdown(Document(g, val))],
                     !.log = Append(@, <<"info", "synced", val.output>>),
                     !.results = Append(@, <<"ok", 0>>)]

\* A map that stops before the last record.
RECURSIVE RunRecordsButLast(_, _, _, _)
RunRecordsButLast(g, i, bad, st) ==
    IF i >= Len(manifest[g]) THEN st
    ELSE RunRecordsButLast(g, i + 1, bad, RunRecord(g, manifest[g][i], bad, st))

\* A map that stops at the first rejected record.
RECURSIVE RunRecordsUntilRejected(_, _, _, _)
RunRecordsUntilRejected(g, i, bad, st) ==
    IF i > Len(manifest[g]) \/ \E k \in 1..Len(st.results) : st.results[k][1] # "ok"
    THEN st
    ELSE RunRecordsUntilRejected(g, i + 1, bad, RunRecord(g, manifest[g][i], bad, st))

\* A map that walks the records from the last to the first.
RECURSIVE RunRecordsBackwards(_, _, _, _)
RunRecordsBackwards(g, i, bad, st) ==
    IF i > Len(manifest[g]) THEN st
    ELSE RunRecordsBackwards(g, i + 1, bad,
            RunRecord(g, manifest[g][Len(manifest[g]) + 1 - i], bad, st))

\* Lines 48 and 97: the map over the group's records, in manifest order.
RECURSIVE RunRecords(_, _, _, _)
RunRecords(g, i, bad, st) ==
    IF i > Len(manifest[g]) THEN st
    ELSE RunRecords(g, i + 1, bad, RunRecord(g, manifest[g][i], bad, st))

\* Lines 79 and 128: Promise.all(processor) rejects with the reason of the
\* first rejected record.
Rejected(results) == {i \in 1..Len(results) : results[i][1] # "ok"}

FirstRejection(results) ==
    results[CHOOSE i \in Rejected(results) : \A j \in Rejected(results) : i <= j]

\* The writes that may throw in one run of a processor: none, or that of one
\* record whose readme is there.
WriteFaults(g) == {{}} \cup {{r} : r \in tree[g]}

\* Whether a promise reaction queued during the main script is yet to run.
ProcessorQueued == \E g \in Groups : lane[g] = "ready"

\* A processor that does not check its working directory.
ProcessorUnchecked(g) ==
    /\ pc = "wait"
    /\ lane[g] = "ready"
    /\ g = "extensions" => lane["core"] # "ready"
    /\ IF FALSE
       THEN /\ lane' = [lane EXCEPT ![g] = "failed"]
            /\ laneErr' = [laneErr EXCEPT ![g] = <<"nodir", 0>>]
            /\ UNCHANGED << out, examplesDir, log, reads, ioFault >>
       ELSE \E bad \in WriteFaults(g) :
              LET st == RunRecords(g, 1, bad,
                          [out |-> out, examplesDir |-> examplesDir, log |-> log,
                           reads |-> reads, results |-> << >>])
              IN  /\ out' = st.out
                  /\ examplesDir' = st.examplesDir
                  /\ log' = st.log
                  /\ reads' = st.reads
                  /\ ioFault' = [ioFault EXCEPT ![g] = bad]
                  /\ IF Rejected(st.results) = {}
                     THEN /\ lane' = [lane EXCEPT ![g] = "done"]
                          /\ UNCHANGED laneErr
                     ELSE /\ lane' = [lane EXCEPT ![g] = "failed"]
                          /\ laneErr' = [laneErr EXCEPT ![g] = FirstRejection(st.results)]
    /\ UNCHANGED << argv, manifest, pc, exitCode, tmp, tree, cleanCount >>

\* A processor called by the script itself instead of as a reaction.
ProcessorInScript(g) ==
    /\ pc \in {"sync", "wait"}
    /\ lane[g] = "ready"
    /\ g = "extensions" => lane["core"] # "ready"
    /\ IF TempDir(g) \notin tmp
       THEN /\ lane' = [lane EXCEPT ![g] = "failed"]
            /\ laneErr' = [laneErr EXCEPT ![g] = <<"nodir", 0>>]
            /\ UNCHANGED << out, examplesDir, log, reads, ioFault >>
       ELSE \E bad \in WriteFaults(g) :
              LET st == RunRecords(g, 1, bad,
                          [out |-> out, examplesDir |-> examplesDir, log |-> log,
                           reads |-> reads, results |-> << >>])
              IN  /\ out' = st.out
                  /\ examplesDir' = st.examplesDir
                  /\ log' = st.log
                  /\ reads' = st.reads
                  /\ ioFault' = [ioFault EXCEPT ![g] = bad]
                  /\ IF Rejected(st.results) = {}
                     THEN /\ lane' = [lane EXCEPT ![g] = "done"]
                          /\ UNCHANGED laneErr
                     ELSE /\ lane' = [lane EXCEPT ![g] = "failed"]
                          /\ laneErr' = [laneErr EXCEPT ![g] = FirstRejection(st.results)]
    /\ UNCHANGED << argv, manifest, pc, exitCode, tmp, tree, cleanCount >>

\* Lines 40-81 and 89-130: coreProcessor / extensionsProcessor, run as the
\* reaction of the group's acquisition promise.  The core reaction is queued
\* before the extensions one.
Processor(g) ==
    /\ pc = "wait"
    /\ lane[g] = "ready"
    /\ g = "extensions" => lane["core"] # "ready"
    /\ IF TempDir(g) \notin tmp
       THEN /\ lane' = [lane EXCEPT ![g] = "failed"]
            /\ laneErr' = [laneErr EXCEPT ![g] = <<"nodir", 0>>]
            /\ UNCHANGED << out, examplesDir, log, reads, ioFault >>
       ELSE \E bad \in WriteFaults(g) :
              LET st == RunRecords(g, 1, bad,
                          [out |-> out, examplesDir |-> examplesDir, log |-> log,
                           reads |-> reads, results |-> << >>])
              IN  /\ out' = st.out
                  /\ examplesDir' = st.examplesDir
                  /\ log' = st.log
                  /\ reads' = st.reads
                  /\ ioFault' = [ioFault EXCEPT ![g] = bad]
                  /\ IF Rejected(st.results) = {}
                     THEN /\ lane' = [lane EXCEPT ![g] = "done"]
                          /\ UNCHANGED laneErr
                     ELSE /\ lane' = [lane EXCEPT ![g] = "failed"]
                          /\ laneErr' = [laneErr EXCEPT ![g] = FirstRejection(st.results)]
    /\ UNCHANGED << argv, manifest, pc, exitCode, tmp, tree, cleanCount >>

\* An event loop that takes I/O completions ahead of a pending rejection.
LoopIdleDespiteRejection ==
    /\ pc = "wait"
    /\ \A g \in Groups : lane[g] # "ready"

\* An I/O completion is taken from the event loop only when no promise
\* reaction is pending: none queued by the script, none of a rejection.
LoopIdle ==
    /\ pc = "wait"
    /\ ~ProcessorQueued
    /\ \A g \in Groups : lane[g] # "failed"

\* util.downGit settles: the archive is written and util.unzipFile starts, or
\* the download fails (possibly leaving a partial archive).
DownloadDone(g) ==
    /\ LoopIdle
    /\ lane[g] = "downloading"
    /\ \/ /\ tmp' = tmp \cup {TempZip(g)}
          /\ lane' = [lane EXCEPT ![g] = "unzipping"]
          /\ UNCHANGED laneErr
       \/ \E partial \in BOOLEAN :
             /\ tmp' = IF partial THEN tmp \cup {TempZip(g)} ELSE tmp
             /\ lane' = [lane EXCEPT ![g] = "failed"]
             /\ laneErr' = [laneErr EXCEPT ![g] = <<"download", 0>>]
    /\ UNCHANGED << argv, manifest, pc, exitCode, tree, out, examplesDir, log,
                    reads, ioFault, cleanCount >>

\* util.unzipFile settles: the archive is extracted (into the working
\* directory when the archive holds it under that name), or the extraction
\* fails (possibly leaving a partial directory).
UnzipDone(g) ==
    /\ LoopIdle
    /\ lane[g] = "unzipping"
    /\ \/ /\ \E made \in BOOLEAN :
                /\ tmp' = IF made THEN tmp \cup {TempDir(g)} ELSE tmp
                /\ \E present \in SUBSET (1..Len(manifest[g])) :
                      /\ TempDir(g) \notin tmp' => present = {}
                      /\ tree' = [tree EXCEPT ![g] = present]
          /\ lane' = [lane EXCEPT ![g] = "ready"]
          /\ UNCHANGED laneErr
       \/ \E partial \in BOOLEAN :
             /\ tmp' = IF partial THEN tmp \cup {TempDir(g)} ELSE tmp
             /\ lane' = [lane EXCEPT ![g] = "failed"]
             /\ laneErr' = [laneErr EXCEPT ![g] = <<"unzip", 0>>]
             /\ UNCHANGED tree
    /\ UNCHANGED << argv, manifest, pc, exitCode, out, examplesDir, log, reads,
                    ioFault, cleanCount >>

\* An aggregate that is fulfilled by the first fulfilled lane.
AnyFulfilled == \E g \in Groups : lane[g] = "done"

\* Promise.all(queue) is fulfilled once every lane is.
AllFulfilled == \A g \in Groups : lane[g] = "done"

\* Promise.all(queue) is rejected once a lane is.
SomeRejected == \E g \in Groups : lane[g] = "failed"

\* Line 225: .then(clean)
OnFulfilled ==
    /\ pc = "wait"
    /\ AllFulfilled
    /\ tmp' = clean(tmp)
    /\ cleanCount' = cleanCount + 1
    /\ pc' = "cleaned"
    /\ UNCHANGED << argv, manifest, exitCode, lane, laneErr, tree, out, examplesDir,
                    log, reads, ioFault >>

\* Lines 225-227: .then(() => reporter.info(...)); the process then ends.
Success ==
    /\ pc = "cleaned"
    /\ log' = Report("info", "success", "")
    /\ pc' = "done"
    /\ UNCHANGED << argv, manifest, exitCode, lane, laneErr, tmp, tree, out,
                    examplesDir, reads, ioFault, cleanCount >>

\* A catch handler that forgets clean().
OnRejectedNoClean ==
    /\ pc = "wait"
    /\ \E g \in Groups : lane[g] = "failed"
    /\ \A g \in Groups : lane[g] # "ready"
    /\ \E g \in Groups :
          /\ lane[g] = "failed"
          /\ log' = Append(log, <<"error", laneErr[g][1], g>>)
    /\ exitCode' = 1
    /\ pc' = "done"
    /\ UNCHANGED << argv, manifest, lane, laneErr, tmp, tree, out, examplesDir, reads,
                    ioFault, cleanCount >>

\* Lines 227-231: the catch handler.  It runs after the reactions queued by
\* the main script; a lane still downloading or extracting is not waited for.
OnRejected ==
    /\ pc = "wait"
    /\ SomeRejected
    /\ ~ProcessorQueued
    /\ \E g \in Groups :
          /\ lane[g] = "failed"
          /\ log' = Report("error", laneErr[g][1], g)
    /\ tmp' = clean(tmp)
    /\ cleanCount' = cleanCount + 1
    /\ Exit1
    /\ UNCHANGED << argv, manifest, lane, laneErr, tree, out, examplesDir, reads,
                    ioFault >>

Next ==
    \/ \E g \in Groups : InvalidLocalDir(g)
    \/ \E g \in Groups : LocalCopy(g)
    \/ \E g \in Groups : RemoteStart(g)
    \/ RemoveExamples
    \/ \E g \in Groups : DownloadDone(g)
    \/ \E g \in Groups : UnzipDone(g)
    \/ \E g \in Groups : Processor(g)
    \/ OnFulfilled
    \/ Success
    \/ OnRejected

Spec == Init /\ [][Next]_vars

(***************************************************************************)
(* Vocabulary of the properties.                                           *)
(***************************************************************************)
Terminated == pc = "done"

BothDone == \A g \in Groups : lane[g] = "done"

ALaneFailed == \E g \in Groups : lane[g] = "failed"

AcquisitionStarted(g) == lane[g] # "idle"

Logged(line) == \E i \in 1..Len(log) : log[i] = line

SuccessLogged == Logged(<<"info", "success", "">>)

\* The main script reached Promise.all(queue).
AggregateReached == Logged(<<"info", "start", "">>)

\* The group's processor went through its records.
RecordsRan(g) ==
    \/ lane[g] = "done"
    \/ lane[g] = "failed" /\ laneErr[g][1] \in {"nofile", "io"}

MissingReadme(g) == \E i \in 1..Len(manifest[g]) : manifest[g][i].readme \notin tree[g]

Written(o) == Len(out[o]) = 3

NothingProcessed ==
    /\ reads = {}
    /\ \A o \in Outputs : ~Written(o)
    /\ \A i \in 1..Len(log) : log[i][2] # "synced"

(***************************************************************************)
(* C1.  Whenever the process terminates after a source acquisition was     *)
(* started for either group, Cleanup has run first, so that none of the    *)
(* four temporary paths exists, also for the exit on an invalid            *)
(* --extensions path after the core acquisition was started.               *)
(***************************************************************************)
C1_CleanupBeforeEveryExit ==
    (Terminated /\ \E g \in Groups : AcquisitionStarted(g))
        => tmp = {}

(***************************************************************************)
(* C2.  Every failure (invalid local directory, rejected lane) ends the    *)
(* process with exit code 1; the success message and exit code 0 come only *)
(* when both lanes were fulfilled; no run logs success and exits with 1.   *)
(***************************************************************************)
C2_ExitCodes ==
    /\ (Terminated /\ ((\E g \in Groups : argv[g] = "nodir") \/ ALaneFailed))
          => exitCode = 1
    /\ (Terminated /\ exitCode = 0) => (BothDone /\ SuccessLogged)
    /\ SuccessLogged => (BothDone /\ exitCode = 0)

C2_Witness ==
    /\ Terminated
    /\ exitCode = 1
    /\ laneErr["core"][1] = "io"
    /\ lane["extensions"] = "done"

(***************************************************************************)
(* C3.  As amended: when a local path is invalid, the process prints an    *)
(* error containing the first invalid path (--core is checked before       *)
(* --extensions) and exits with code 1, and no source file was read and no *)
(* output document written by either group.                                *)
(***************************************************************************)
FirstInvalid(g) ==
    /\ argv[g] = "nodir"
    /\ g = "extensions" => argv["core"] # "nodir"

InvalidPathReported(g) ==
    /\ exitCode = 1
    /\ Logged(<<"error", "local directory does not exist", LocalPath(g)>>)
    /\ NothingProcessed

C3_InvalidLocalPath ==
    \A g \in Groups :
        /\ argv[g] = "nodir" => NothingProcessed
        /\ (Terminated /\ FirstInvalid(g)) => InvalidPathReported(g)
        /\ (argv[g] = "nodir" /\ ~Terminated) => pc \in {"core", "extensions"}

C3_Witness ==
    /\ Terminated
    /\ argv["extensions"] = "nodir"
    /\ lane["core"] = "ready"
    /\ InvalidPathReported("extensions")

\* C3 as stated: the error contains the path of every invalid flag.
C3_Original ==
    \A g \in Groups :
        (Terminated /\ argv[g] = "nodir") => InvalidPathReported(g)

(***************************************************************************)
(* C4.  As amended: Cleanup is invoked exactly once per run that reaches   *)
(* the aggregate stage, and only after the aggregate has settled: on       *)
(* success when both lanes are Done, before the success message; on        *)
(* failure in the failure handler once one lane has Failed (the other lane *)
(* may still be acquiring), before the process exits with status 1.        *)
(***************************************************************************)
C4_CleanupOnce ==
    /\ cleanCount <= 1
    /\ (Terminated /\ AggregateReached) => cleanCount = 1
    /\ cleanCount = 1 =>
          \/ BothDone /\ exitCode = 0 /\ pc \in {"cleaned", "done"}
          \/ ALaneFailed /\ exitCode = 1 /\ Terminated
    /\ SuccessLogged => cleanCount = 1
    /\ pc = "cleaned" => ~SuccessLogged

C4_Witness ==
    /\ Terminated
    /\ cleanCount = 1
    /\ lane["core"] = "failed"
    /\ lane["extensions"] = "unzipping"

\* C4 as stated: Cleanup runs only after both lanes are Done or Failed.
C4_Original ==
    cleanCount >= 1 => \A g \in Groups : lane[g] \in {"done", "failed"}

(***************************************************************************)
(* C5.  If a record's source markdown file is absent when its group is     *)
(* processed, the group's pipeline rejects, Cleanup runs, and at           *)
(* termination no temporary directory or archive exists.                   *)
(***************************************************************************)
C5_MissingSourceFile ==
    \A g \in Groups :
        (RecordsRan(g) /\ MissingReadme(g)) =>
            /\ lane[g] = "failed"
            /\ Terminated => (exitCode = 1 /\ cleanCount = 1 /\ tmp = {})

C5_Witness ==
    /\ Terminated
    /\ laneErr["extensions"] = <<"nofile", 2>>
    /\ 1 \in tree["extensions"]
    /\ argv["extensions"] = "absent"
    /\ tmp = {}

(***************************************************************************)
(* C6.  After a successful run none of the four temporary acquisition      *)
(* paths exists.                                                           *)
(***************************************************************************)
C6_NoTemporariesAfterSuccess ==
    (pc = "cleaned" \/ (Terminated /\ SuccessLogged)) => tmp = {}

C6_Witness ==
    /\ Terminated
    /\ SuccessLogged
    /\ argv = [core |-> "dir", extensions |-> "absent"]
    /\ tmp = {}

(***************************************************************************)
(* C7.  As amended: after a successful run source/examples holds nothing   *)
(* from before the run: it does not exist when no manifest record has an   *)
(* output path under examples/, and otherwise it exists and holds only     *)
(* files this run wrote.                                                   *)
(***************************************************************************)
WritesUnderExamples ==
    \E g \in Groups : \E i \in 1..Len(manifest[g]) : UnderExamples(manifest[g][i].output)

C7_ExamplesAfterSuccess ==
    (Terminated /\ SuccessLogged) =>
        /\ examplesDir <=> WritesUnderExamples
        /\ \A o \in Outputs : UnderExamples(o) => out[o] # StaleFile

C7_Witness ==
    /\ Terminated
    /\ SuccessLogged
    /\ examplesDir
    /\ Written("examples/a.md")
    /\ out["components/a.md"] = StaleFile

\* C7 as stated: after a successful run source/examples does not exist.
C7_Original == (Terminated /\ SuccessLogged) => ~examplesDir

(***************************************************************************)
(* The text a record's output file is to hold: the title, dependencies and *)
(* body parsed from the record's own readme, the record's name, the preset *)
(* of the record's own directory, the preview setting.                     *)
(***************************************************************************)
ExpectedPreview(v) ==
    IF v = Undefined \/ v = Bool(TRUE) THEN Bool(TRUE) ELSE Bool(FALSE)

ExpectedText(g, val) ==
    LET parsed == ParseMarkdown(FileText(g, val.readme))
    IN  << parsed.title,
           [deps |-> parsed.deps, name |-> val.name,
            preset |-> ReadPreset(g, Dirname(val.readme)),
            preview |-> ExpectedPreview(val.preview)],
           parsed.content >>

OutputsOf(g) == {manifest[g][i].output : i \in 1..Len(manifest[g])}

AllSourcesPresent(g) ==
    \A i \in 1..Len(manifest[g]) : manifest[g][i].readme \in tree[g]

DistinctOutputs(g) ==
    \A i, j \in 1..Len(manifest[g]) :
        i # j => manifest[g][i].output # manifest[g][j].output

(***************************************************************************)
(* C8.  Processing the N records of one group, all of whose source files   *)
(* exist and whose output paths are pairwise distinct (and none of whose   *)
(* writes throws), fulfils the group and produces exactly N output files:  *)
(* one per record, at its own output path, with that record's content; N   *)
(* success lines are logged and no other output path is touched.           *)
(***************************************************************************)
C8_OneFilePerRecord ==
    [][ \A g \in Groups :
          ( /\ lane[g] = "ready"
            /\ lane'[g] # "ready"
            /\ TempDir(g) \in tmp
            /\ AllSourcesPresent(g)
            /\ DistinctOutputs(g)
            /\ ioFault'[g] = {} )
          => /\ lane'[g] = "done"
             /\ \A i \in 1..Len(manifest[g]) :
                   out'[manifest[g][i].output] = ExpectedText(g, manifest[g][i])
             /\ \A o \in Outputs \ OutputsOf(g) : out'[o] = out[o]
             /\ Len(log') = Len(log) + Len(manifest[g])
             /\ {log'[k] : k \in (Len(log) + 1)..Len(log')}
                   = {<<"info", "synced", o>> : o \in OutputsOf(g)} ]_vars

C8_Witness ==
    /\ lane["core"] = "done"
    /\ Len(manifest["core"]) = 2
    /\ DistinctOutputs("core")
    /\ \A i \in 1..2 :
          out[manifest["core"][i].output] = ExpectedText("core", manifest["core"][i])

(***************************************************************************)
(* C9.  As amended: the preview setting written for a record is true when  *)
(* the record's preview field is unspecified and false when it is false;   *)
(* in general it is true for an undefined field and the boolean coercion   *)
(* of the field otherwise, so a null field yields false.                   *)
(***************************************************************************)
WrittenBy(o, g, i) == Written(o) /\ out[o][2].name = manifest[g][i].name

C9_PreviewSetting ==
    \A o \in Outputs : \A g \in Groups : \A i \in 1..Len(manifest[g]) :
        WrittenBy(o, g, i) =>
            LET field == manifest[g][i].preview
                setting == out[o][2].preview
            IN  /\ field = Undefined => setting = Bool(TRUE)
                /\ field = Bool(FALSE) => setting = Bool(FALSE)
                /\ field = Bool(TRUE) => setting = Bool(TRUE)
                /\ field = Null => setting = Bool(FALSE)

C9_Witness ==
    \E o \in Outputs :
        /\ Len(manifest["core"]) >= 1
        /\ WrittenBy(o, "core", 1)
        /\ manifest["core"][1].preview = Null
        /\ out[o][2].preview = Bool(FALSE)

\* C9 as stated: the setting equals record.preview ?? true for every value.
NullishTrue(v) == IF v = Undefined \/ v = Null THEN Bool(TRUE) ELSE v

C9_Original ==
    \A o \in Outputs : \A g \in Groups : \A i \in 1..Len(manifest[g]) :
        WrittenBy(o, g, i) => out[o][2].preview = NullishTrue(manifest[g][i].preview)

(***************************************************************************)
(* C10.  Every written document carries exactly the title, the body and    *)
(* the dependency list parsed from its own record's source file, with that *)
(* record's name and the preset of that record's source directory; no      *)
(* field of another record appears in it.                                  *)
(***************************************************************************)
C10_OwnFieldsOnly ==
    \A o \in Outputs :
        Written(o) =>
            \E g \in Groups : \E i \in 1..Len(manifest[g]) :
                LET val == manifest[g][i]
                    parsed == ParseMarkdown(FileText(g, val.readme))
                IN  /\ val.output = o
                    /\ out[o][1] = parsed.title
                    /\ out[o][3] = parsed.content
                    /\ out[o][2].deps = parsed.deps
                    /\ out[o][2].name = val.name
                    /\ out[o][2].preset = ReadPreset(g, Dirname(val.readme))

C10_Witness ==
    /\ Len(manifest["extensions"]) = 2
    /\ lane["extensions"] = "done"
    /\ \A o \in Outputs : Written(o)
    /\ \E o \in Outputs : out[o][2].preset = <<"undefined", "", 0>>

(***************************************************************************)
(* C11.  The validity check of a local-path flag happens before any        *)
(* acquisition work is launched for any group: when the process exits      *)
(* because of an invalid local path, no download has been started and no   *)
(* directory has been copied into tools/.                                  *)
(***************************************************************************)
C11_CheckBeforeAnyAcquisition ==
    (Terminated /\ \E g \in Groups : argv[g] = "nodir")
        => \A g \in Groups : lane[g] = "idle"

(***************************************************************************)
(* C12.  As amended: the removal of the previously generated               *)
(* source/examples happens after both lanes were launched (a local copy is *)
(* already performed, a download already started), and before any          *)
(* download or extraction completes and before any Document Processor      *)
(* runs.                                                                   *)
(***************************************************************************)
C12_RemovalAfterLaunch ==
    /\ AggregateReached => \A g \in Groups : AcquisitionStarted(g)
    /\ ~AggregateReached =>
          /\ NothingProcessed
          /\ \A g \in Groups :
                \/ lane[g] \in {"idle", "ready", "downloading"}
                \/ lane[g] = "failed" /\ laneErr[g][1] = "copy"

C12_Witness ==
    /\ pc = "wait"
    /\ AggregateReached
    /\ ~examplesDir
    /\ lane = [core |-> "ready", extensions |-> "downloading"]
    /\ TempDir("core") \in tmp
    /\ reads = {}

\* C12 as stated: no acquisition step begins before the removal.
C12_Original ==
    \A g \in Groups : AcquisitionStarted(g) => AggregateReached

(***************************************************************************)
(* C13.  As soon as a lane rejects the run is failed: the failure handler  *)
(* logs the error, runs Cleanup and exits with code 1 without waiting for  *)
(* the other lane, so a lane still acquiring at that moment never reaches  *)
(* its Process stage and writes no output.                                 *)
(***************************************************************************)
StillAcquiring(g) == lane[g] \in {"downloading", "unzipping"}

UntouchedBy(g) ==
    /\ \A r \in reads : r[1] # g
    /\ \A o \in Outputs : Written(o) => out[o][2].name[2] # g

C13_FirstRejectionIsFatal ==
    /\ [](\A g \in Groups : (ALaneFailed /\ StillAcquiring(g)) => UntouchedBy(g))
    /\ [][ /\ \A g \in Groups :
                (ALaneFailed /\ StillAcquiring(g)) => lane'[g] = lane[g]
           /\ (ALaneFailed /\ pc = "wait" /\ \A g \in Groups : lane[g] # "ready")
                => /\ pc' = "done"
                   /\ exitCode' = 1
                   /\ cleanCount' = cleanCount + 1
                   /\ tmp' = {}
                   /\ Len(log') = Len(log) + 1
                   /\ log'[Len(log')][1] = "error"
                   /\ out' = out
                   /\ reads' = reads ]_vars

C13_Witness ==
    /\ Terminated
    /\ exitCode = 1
    /\ cleanCount = 1
    /\ laneErr["extensions"][1] = "nofile"
    /\ lane["core"] = "unzipping"
    /\ UntouchedBy("core")

(***************************************************************************)
(* C14.  Each lane follows Idle -> Acquire -> Process -> Done | Failed: a  *)
(* group's Document Processor starts only after the group's acquisition    *)
(* (copy, or download then extraction) has completed successfully, and a   *)
(* failed acquisition takes the lane to Failed with no output file of the  *)
(* group written.                                                          *)
(***************************************************************************)
AcquisitionFailed(g) ==
    lane[g] = "failed" /\ laneErr[g][1] \in {"copy", "download", "unzip"}

\* The processor of g has started (it checks its directory first).
ProcessorStarted(g) ==
    \/ lane[g] = "done"
    \/ lane[g] = "failed" /\ laneErr[g][1] \in {"nodir", "nofile", "io"}

LaneSteps(g) ==
    (IF argv[g] = "dir"
       THEN {<<"idle", "ready">>, <<"idle", "failed">>}
       ELSE {<<"idle", "downloading">>, <<"downloading", "unzipping">>,
             <<"downloading", "failed">>, <<"unzipping", "ready">>,
             <<"unzipping", "failed">>})
    \cup {<<"ready", "done">>, <<"ready", "failed">>}

C14_LaneStateMachine ==
    /\ [](\A g \in Groups :
            /\ ~ProcessorStarted(g) => UntouchedBy(g)
            /\ AcquisitionFailed(g) => UntouchedBy(g))
    /\ [][ \A g \in Groups :
             /\ lane'[g] # lane[g] => <<lane[g], lane'[g]>> \in LaneSteps(g)
             /\ (ProcessorStarted(g)' /\ ~ProcessorStarted(g)) => lane[g] = "ready"
             /\ (AcquisitionFailed(g)' /\ ~AcquisitionFailed(g)) =>
                   (lane[g] # "ready" /\ out' = out /\ reads' = reads) ]_vars

C14_Witness ==
    /\ lane["core"] = "done"
    /\ argv["core"] = "absent"
    /\ ~UntouchedBy("core")
    /\ laneErr["extensions"][1] = "unzip"
    /\ UntouchedBy("extensions")

(***************************************************************************)
(* C15.  When a record of a group fails because its source markdown file   *)
(* is missing, the group's promise rejects, yet every other record of the  *)
(* group whose source file exists (and whose write does not throw) is      *)
(* still written to its output path, before and after the failing one      *)
(* alike; nothing written is rolled back.                                  *)
(***************************************************************************)
\* The records of g that get written when the writes of bad throw.
Writable(g, bad) ==
    {i \in 1..Len(manifest[g]) :
        manifest[g][i].readme \in tree[g] /\ manifest[g][i].readme \notin bad}

\* The last writable record of g that shares the output path of record i.
LastWriter(g, bad, i) ==
    CHOOSE j \in Writable(g, bad) :
        /\ manifest[g][j].output = manifest[g][i].output
        /\ \A k \in Writable(g, bad) :
              manifest[g][k].output = manifest[g][i].output => k <= j

SyncedCount(lines) == Cardinality({k \in 1..Len(lines) : lines[k][2] = "synced"})

C15_SiblingsStillWritten ==
    [][ /\ \A g \in Groups :
             ( /\ lane[g] = "ready"
               /\ lane'[g] # "ready"
               /\ TempDir(g) \in tmp
               /\ MissingReadme(g) )
             => /\ lane'[g] = "failed"
                /\ laneErr'[g][1] \in {"nofile", "io"}
                /\ \A i \in Writable(g, ioFault'[g]) :
                      /\ <<g, manifest[g][i].readme>> \in reads'
                      /\ out'[manifest[g][i].output] =
                            ExpectedText(g, manifest[g][LastWriter(g, ioFault'[g], i)])
                /\ SyncedCount(log') =
                      SyncedCount(log) + Cardinality(Writable(g, ioFault'[g]))
        /\ (pc = "wait" /\ \A g \in Groups : lane[g] # "ready") => out' = out ]_vars

C15_Witness ==
    /\ Terminated
    /\ Len(manifest["core"]) = 2
    /\ tree["core"] = {2}
    /\ laneErr["core"] = <<"nofile", 1>>
    /\ out[manifest["core"][2].output] = ExpectedText("core", manifest["core"][2])

(***************************************************************************)
(* C16.  If a group's temporary working directory does not exist when its  *)
(* Document Processor starts, the group pipeline rejects at once: no       *)
(* source file of the group is read and no output file of the group is     *)
(* written or created.                                                     *)
(***************************************************************************)
C16_MissingWorkingDirectory ==
    /\ [](\A g \in Groups : laneErr[g][1] = "nodir" => UntouchedBy(g))
    /\ [][ \A g \in Groups :
             (lane[g] = "ready" /\ lane'[g] # "ready" /\ TempDir(g) \notin tmp)
             => /\ lane'[g] = "failed"
                /\ laneErr'[g][1] = "nodir"
                /\ reads' = reads
                /\ out' = out
                /\ examplesDir' = examplesDir
                /\ log' = log ]_vars

C16_Witness ==
    /\ Terminated
    /\ laneErr["core"][1] = "nodir"
    /\ Len(manifest["core"]) = 2
    /\ UntouchedBy("core")

(***************************************************************************)
(* C17.  Every write of an output document (and every read of a source    *)
(* file) happens after the removal of source/examples, so an output file   *)
(* this run writes, under source/examples or elsewhere, is never deleted   *)
(* by the run.                                                             *)
(***************************************************************************)
C17_WritesAfterRemoval ==
    /\ []((reads # {} \/ \E o \in Outputs : Written(o)) => AggregateReached)
    /\ [][ \A o \in Outputs :
             Written(o) => /\ Written(o)'
                           /\ UnderExamples(o) => examplesDir' ]_vars

C17_Witness ==
    /\ pc = "wait"
    /\ Written("examples/a.md")
    /\ examplesDir
    /\ out["components/a.md"] = StaleFile

(***************************************************************************)
(* C18.  Once Cleanup has removed the temporary directories, no document   *)
(* processing step (read of a source file, preset read, output write) of   *)
(* either group takes place; the Document Processor never reads from a     *)
(* working tree that Cleanup has deleted.                                  *)
(***************************************************************************)
C18_NoProcessingAfterCleanup ==
    [][ /\ cleanCount >= 1 =>
              /\ reads' = reads
              /\ out' = out
              /\ examplesDir' = examplesDir
              /\ lane' = lane
              /\ SyncedCount(log') = SyncedCount(log)
        /\ \A r \in reads' \ reads : cleanCount = 0 /\ TempDir(r[1]) \in tmp ]_vars

C18_Witness ==
    /\ Terminated
    /\ SuccessLogged
    /\ cleanCount = 1
    /\ reads = {<<"core", 1>>, <<"extensions", 1>>}

(***************************************************************************)
(* C19.  A group's Document Processor handles its records one after        *)
(* another in manifest order as one uninterrupted step: the success lines  *)
(* of the group are logged together, in manifest order, with no line of    *)
(* the other group's processor between them, and when two records of the   *)
(* group share an output path the file holds the content of the later one. *)
(***************************************************************************)
\* The success lines of the records i.. of g that get written.
RECURSIVE SyncedLines(_, _, _)
SyncedLines(g, bad, i) ==
    IF i > Len(manifest[g]) THEN << >>
    ELSE (IF i \in Writable(g, bad)
            THEN << <<"info", "synced", manifest[g][i].output>> >>
            ELSE << >>) \o SyncedLines(g, bad, i + 1)

C19_ManifestOrder ==
    [][ \A g \in Groups :
          (lane[g] = "ready" /\ lane'[g] # "ready" /\ TempDir(g) \in tmp)
          => /\ log' = log \o SyncedLines(g, ioFault'[g], 1)
             /\ \A h \in Groups \ {g} : lane'[h] = lane[h]
             /\ \A i, j \in Writable(g, ioFault'[g]) :
                   (i < j /\ manifest[g][i].output = manifest[g][j].output
                      /\ LastWriter(g, ioFault'[g], j) = j)
                   => out'[manifest[g][i].output] = ExpectedText(g, manifest[g][j]) ]_vars

C19_Witness ==
    /\ lane["extensions"] = "done"
    /\ Len(manifest["extensions"]) = 2
    /\ manifest["extensions"][1].output = manifest["extensions"][2].output
    /\ manifest["extensions"][1].preview # manifest["extensions"][2].preview
    /\ out[manifest["extensions"][2].output]
          = ExpectedText("extensions", manifest["extensions"][2])

====
